---- MODULE Spec2Model ----
(***************************************************************************)
(* Model of tensorflow/contrib/distributions/python/ops/autoregressive.py: *)
(* the Autoregressive distribution.  One instance is constructed from a    *)
(* distribution_fn, an optional sample0 and an optional num_steps; after   *)
(* a successful construction _sample_n, _log_prob and _prob are called in  *)
(* any order.                                                              *)
(*                                                                         *)
(* Tensors are symbolic terms.  A term is the sequence of the operations   *)
(* that produced the tensor, innermost first: <<"x0", "fn", "sample(2)",   *)
(* "fn", "sample()">> is fn(fn(x0).sample(2)).sample().  Python's None is  *)
(* the empty sequence; an optional integer k is <<k>>.                     *)
(***************************************************************************)
EXTENDS Integers, Sequences, FiniteSets, TLC

VARIABLES pc, parameters, _distribution_fn, _sample0, _distribution0,
          _num_steps, dtype, raised, last

vars == <<pc, parameters, _distribution_fn, _sample0, _distribution0,
          _num_steps, dtype, raised, last>>

\* ---------------------------------------------------------------- bounds
\* Largest explicit num_steps argument tried.
MaxNumSteps == 2
\* Largest sample count n passed to _sample_n.
MaxN == 2
\* Largest seed value (explicit or generated).
MaxSeed == 1

\* ------------------------------------------------ values of the framework
None == <<>>

\* The initial tensors a caller may pass as sample0 or as a value.
InitialTensors == {<<"x0">>, <<"x1">>}

\* The distribution-constructing callables a caller may supply.  "scalar",
\* "vector", "empty" and "unknown" build distributions whose event has 1, 2,
\* 0 and an unknown number of elements; "dependent" builds a distribution
\* whose shapes and dtype depend on the tensor it is given.
DistributionFns == {"scalar", "vector", "empty", "unknown", "dependent"}

\* Whether a call's argument tuple is the constructor-time one: no argument,
\* None, or an initial tensor (as opposed to a tensor that was sampled).
IsInitialArgs(args) == args = <<>> \/ args[1] = None \/ Len(args[1]) = 1

\* event_shape.num_elements() of the distribution f builds from args.
NumElements(f, args) ==
  CASE f = "scalar"    -> <<1>>
    [] f = "vector"    -> <<2>>
    [] f = "empty"     -> <<0>>
    [] f = "unknown"   -> None
    [] f = "dependent" -> IF IsInitialArgs(args) THEN <<2>> ELSE <<3>>

\* batch_shape of the distribution f builds from args.
BatchShape(f, args) ==
  IF f = "dependent" /\ ~IsInitialArgs(args) THEN <<5>> ELSE <<4>>

\* dtype of the distribution f builds from args.
DType(f, args) ==
  IF f = "dependent" /\ ~IsInitialArgs(args) THEN "float64" ELSE "float32"

\* The term of a call f(*args): f() is <<"fn">>, f(None) is <<"None", "fn">>
\* and f(x) is x followed by "fn".
CallTerm(args) ==
  IF args = <<>> THEN <<"fn">>
  ELSE IF args[1] = None THEN <<"None", "fn">>
  ELSE Append(args[1], "fn")

\* distribution_fn(*args): the distribution a callable builds.
DistributionFn(f, args) ==
  [term        |-> CallTerm(args),
   event_shape |-> NumElements(f, args),
   batch_shape |-> BatchShape(f, args),
   dtype       |-> DType(f, args)]

\* The value of the fields before __init__ assigns them.
NoDistribution ==
  [term |-> <<>>, event_shape |-> None, batch_shape |-> None, dtype |-> "unset"]

\* d.sample(n, seed) and d.sample(seed): the tensor drawn from d.
Sample(d, n) ==
  Append(d.term, IF n = None THEN "sample()"
                 ELSE "sample(" \o ToString(n[1]) \o ")")

\* d.log_prob(value) and d.prob(value).
LogProb(d, value) == [dist |-> d, at |-> value, kind |-> "log_prob"]
Prob(d, value) == [dist |-> d, at |-> value, kind |-> "prob"]
NoDensity == [dist |-> NoDistribution, at |-> None, kind |-> "none"]

\* What one call did: the operation, its arguments, the argument tuples
\* distribution_fn was called with, the number of samples drawn, the last
\* distribution built, and the result.
NoCall ==
  [op |-> "none", n |-> None, seed |-> None, value |-> None, fnArgs |-> <<>>,
   draws |-> 0, dist |-> NoDistribution, samples |-> None,
   density |-> NoDensity]

\* ------------------------------------------------------------ __init__
\* The argument tuple __init__ calls distribution_fn with.
Distribution0Args_AlwaysPassed(s0) == <<s0>>

Distribution0Args(s0) == IF s0 = None THEN <<>> ELSE <<s0>>

\* The step count after the default is taken from the event size.
DefaultNumSteps_EventSizeFirst(ns, d0) ==
  IF d0.event_shape # None THEN d0.event_shape ELSE ns

DefaultNumSteps(ns, d0) == IF ns = None THEN d0.event_shape ELSE ns

\* The condition of the first ValueError.
MissingShape_AnyUnknownEvent(ns, d0) == d0.event_shape = None

MissingShape(ns, d0) == ns = None /\ d0.event_shape = None

\* The condition of the second ValueError.
TooFewSteps_Negative(k) == k < 0

TooFewSteps(k) == k < 1

Construct(f, s0, ns) ==
  /\ pc = "start"
  /\ LET args  == Distribution0Args(s0)
         d0    == DistributionFn(f, args)
         steps == DefaultNumSteps(ns, d0)
         error == IF MissingShape(ns, d0) THEN "ValueError: event_shape"
                  ELSE IF TooFewSteps(steps[1]) THEN "ValueError: num_steps"
                  ELSE "none"
     IN /\ parameters' = [distribution_fn |-> f, sample0 |-> s0, num_steps |-> ns]
        /\ _distribution_fn' = f
        /\ _sample0' = s0
        /\ _distribution0' = d0
        /\ last' = [NoCall EXCEPT !.op = "__init__", !.fnArgs = <<args>>,
                                  !.dist = d0]
        /\ raised' = error
        /\ IF error = "none"
           THEN /\ _num_steps' = steps
                /\ dtype' = d0.dtype
                /\ pc' = "ready"
           ELSE /\ UNCHANGED <<_num_steps, dtype>>
                /\ pc' = "raised"

\* ---------------------------------------------------------- properties
sample0 == _sample0
num_steps == _num_steps[1]
distribution0 == _distribution0

_batch_shape == distribution0.batch_shape
_batch_shape_tensor == distribution0.batch_shape

_event_shape_OfLastBuilt == last.dist.event_shape

_event_shape == distribution0.event_shape
_event_shape_tensor == distribution0.event_shape

\* ------------------------------------------------------------ _sample_n
\* The loop of _sample_n: i iterations left, acc the loop's state.
RECURSIVE SampleLoop(_, _, _)
SampleLoop(f, i, acc) ==
  IF i = 0 THEN acc
  ELSE LET d == DistributionFn(f, <<acc.samples>>)
       IN SampleLoop(f, i - 1,
            [samples |-> Sample(d, None),
             fnArgs  |-> Append(acc.fnArgs, <<acc.samples>>),
             draws   |-> acc.draws + 1,
             dist    |-> d])

\* The seeds gen_new_seed may produce, and the seeds a caller may pass.
Seeds == {<<s>> : s \in 0..MaxSeed}

_sample_n(n, seed) ==
  /\ pc = "ready"
  /\ \E used \in (IF seed = None THEN Seeds ELSE {seed}) :
       LET first == [samples |-> Sample(distribution0, <<n>>),
                     fnArgs  |-> <<>>,
                     draws   |-> 1,
                     dist    |-> distribution0]
           out   == SampleLoop(_distribution_fn, num_steps, first)
       IN last' = [NoCall EXCEPT !.op = "sample", !.n = <<n>>, !.seed = used,
                                 !.fnArgs = out.fnArgs, !.draws = out.draws,
                                 !.dist = out.dist, !.samples = out.samples]
  /\ UNCHANGED <<pc, parameters, _distribution_fn, _sample0, _distribution0,
                 _num_steps, dtype, raised>>

\* ------------------------------------------------------ _log_prob, _prob
LogProbOf_Distribution0(f, value) ==
  [density |-> LogProb(distribution0, value), fnArgs |-> <<>>, draws |-> 0,
   dist |-> distribution0]

LogProbOf(f, value) ==
  LET d == DistributionFn(f, <<value>>)
  IN [density |-> LogProb(d, value), fnArgs |-> << <<value>> >>, draws |-> 0,
      dist |-> d]

ProbOf(f, value) ==
  LET d == DistributionFn(f, <<value>>)
  IN [density |-> Prob(d, value), fnArgs |-> << <<value>> >>, draws |-> 0,
      dist |-> d]

\* The tensors a caller may evaluate: the initial ones and the last sample.
Values == InitialTensors \cup (IF last.samples = None THEN {} ELSE {last.samples})

_log_prob(value) ==
  /\ pc = "ready"
  /\ LET out == LogProbOf(_distribution_fn, value)
     IN last' = [NoCall EXCEPT !.op = "log_prob", !.value = value,
                               !.fnArgs = out.fnArgs, !.draws = out.draws,
                               !.dist = out.dist, !.density = out.density]
  /\ UNCHANGED <<pc, parameters, _distribution_fn, _sample0, _distribution0,
                 _num_steps, dtype, raised>>

_prob(value) ==
  /\ pc = "ready"
  /\ LET out == ProbOf(_distribution_fn, value)
     IN last' = [NoCall EXCEPT !.op = "prob", !.value = value,
                               !.fnArgs = out.fnArgs, !.draws = out.draws,
                               !.dist = out.dist, !.density = out.density]
  /\ UNCHANGED <<pc, parameters, _distribution_fn, _sample0, _distribution0,
                 _num_steps, dtype, raised>>

\* -------------------------------------------------------- specification
NumStepsArgs == {None} \cup {<<k>> : k \in (0 - 1)..MaxNumSteps}

Init ==
  /\ pc = "start"
  /\ parameters = [distribution_fn |-> "none", sample0 |-> None, num_steps |-> None]
  /\ _distribution_fn = "none"
  /\ _sample0 = None
  /\ _distribution0 = NoDistribution
  /\ _num_steps = None
  /\ dtype = "unset"
  /\ raised = "none"
  /\ last = NoCall

Next ==
  \/ \E f \in DistributionFns, s0 \in {None} \cup InitialTensors,
        ns \in NumStepsArgs : Construct(f, s0, ns)
  \/ \E n \in 1..MaxN, seed \in {None} \cup Seeds : _sample_n(n, seed)
  \/ \E value \in Values : _log_prob(value)
  \/ \E value \in Values : _prob(value)

Spec == Init /\ [][Next]_vars

\* ---------------------------------------------------------------- claims
\* The number of occurrences of token in term.
CountToken(term, token) == Cardinality({i \in 1..Len(term) : term[i] = token})

\* The argument tuple the constructor is documented to call distribution_fn
\* with, read from the constructor's arguments.
DocumentedArgs ==
  IF parameters.sample0 = None THEN <<>> ELSE <<parameters.sample0>>

\* C1: with num_steps = n, one sample call composes distribution_fn exactly n
\* times in total (the application that built distribution0 included) and
\* draws exactly n samples, each later application receiving the sample drawn
\* from the previous one; for n = 2 the result is
\* distribution_fn(distribution_fn(sample0).sample(n)).sample().
C1_SampleComposesNumStepsTimes ==
  (pc = "ready" /\ last.op = "sample") =>
    /\ 1 + Len(last.fnArgs) = num_steps
    /\ last.draws = num_steps
    /\ CountToken(last.samples, "fn") = num_steps
    /\ num_steps = 2 =>
         last.samples = Sample(DistributionFn(_distribution_fn,
                          <<Sample(distribution0, last.n)>>), None)

\* C2: a construction whose effective step count (given, or derived from the
\* event size) is below 1 raises ValueError, and every constructed instance
\* has num_steps >= 1 ever after.
C2_StepCountAtLeastOne ==
  (pc # "start") =>
    LET effective == IF parameters.num_steps = None
                     THEN NumElements(parameters.distribution_fn, DocumentedArgs)
                     ELSE parameters.num_steps
    IN /\ (effective # None /\ effective[1] < 1) =>
            (pc = "raised" /\ raised = "ValueError: num_steps")
       /\ pc = "ready" => (raised = "none" /\ num_steps >= 1)

C2_Witness ==
  /\ pc = "raised"
  /\ raised = "ValueError: num_steps"
  /\ parameters.num_steps = None
  /\ _distribution0.event_shape = <<0>>

\* C3: the missing-shape ValueError is raised exactly when num_steps is None
\* and the event size of distribution_fn(sample0) is None; with an explicit
\* num_steps an unknown event size leads on to the num_steps >= 1 check.
C3_MissingShapeIffBothNone ==
  (pc # "start") =>
    LET size == NumElements(parameters.distribution_fn, DocumentedArgs)
    IN /\ raised = "ValueError: event_shape"
            <=> (parameters.num_steps = None /\ size = None)
       /\ (parameters.num_steps # None /\ size = None) =>
            IF parameters.num_steps[1] < 1
            THEN pc = "raised" /\ raised = "ValueError: num_steps"
            ELSE pc = "ready" /\ raised = "none"

C3_Witness ==
  /\ pc = "ready"
  /\ parameters.num_steps # None
  /\ _distribution0.event_shape = None

\* C4: prob(x) is distribution_fn(x).prob(x) and log_prob(x) is
\* distribution_fn(x).log_prob(x): one application of distribution_fn, to x,
\* evaluated at x, with no sampling, whatever num_steps, sample0 and
\* distribution0 are.
C4_ProbIsFnOfValueAtValue ==
  (last.op \in {"prob", "log_prob"}) =>
    /\ last.density.dist.term = Append(last.value, "fn")
    /\ last.density.dist = DistributionFn(parameters.distribution_fn, <<last.value>>)
    /\ last.density.at = last.value
    /\ last.density.kind = last.op
    /\ last.fnArgs = << <<last.value>> >>
    /\ last.draws = 0
    /\ last.samples = None

C4_Witness ==
  /\ last.op = "log_prob"
  /\ Len(last.value) > 1
  /\ last.density.dist # distribution0
  /\ num_steps = 2

\* C5: event_shape, batch_shape (static and tensor forms) and dtype are
\* those of the distribution the constructor built from sample0, whatever
\* distributions later sample, prob and log_prob calls build.
C5_ShapesAreDistribution0s ==
  (pc = "ready") =>
    LET built == DistributionFn(parameters.distribution_fn, DocumentedArgs)
    IN /\ _event_shape = built.event_shape
       /\ _event_shape_tensor = built.event_shape
       /\ _batch_shape = built.batch_shape
       /\ _batch_shape_tensor = built.batch_shape
       /\ dtype = built.dtype

C5_Witness ==
  /\ pc = "ready"
  /\ last.op \in {"sample", "prob", "log_prob"}
  /\ last.dist.event_shape # _event_shape
  /\ last.dist.batch_shape # _batch_shape
  /\ last.dist.dtype # dtype

\* C6: with sample0 None the constructor calls distribution_fn with no
\* arguments, otherwise with sample0; the sample0 property returns the value
\* passed in both cases.
C6_Sample0DecidesTheFirstCall ==
  (pc # "start") =>
    /\ sample0 = parameters.sample0
    /\ distribution0.term = (IF parameters.sample0 = None THEN <<"fn">>
                             ELSE Append(parameters.sample0, "fn"))
    /\ last.op = "__init__" => last.fnArgs = <<DocumentedArgs>>

C6_Witness ==
  /\ pc = "ready"
  /\ last.op = "__init__"
  /\ parameters.sample0 = None
  /\ sample0 = None
  /\ last.fnArgs = << <<>> >>

\* C7: with num_steps None and a known event size k >= 1 the instance's
\* num_steps is k; with an explicit num_steps >= 1 it is the given value,
\* whatever the event size.
C7_NumStepsDefaultsToEventSize ==
  (pc # "start") =>
    LET size == NumElements(parameters.distribution_fn, DocumentedArgs)
    IN /\ (parameters.num_steps = None /\ size # None /\ size[1] >= 1) =>
            (pc = "ready" /\ num_steps = size[1])
       /\ (parameters.num_steps # None /\ parameters.num_steps[1] >= 1) =>
            (pc = "ready" /\ num_steps = parameters.num_steps[1])

C7_Witness ==
  /\ pc = "ready"
  /\ parameters.num_steps # None
  /\ distribution0.event_shape # None
  /\ num_steps # distribution0.event_shape[1]

====
